---- MODULE Spec2Model ----
(***************************************************************************)
(* A model of the Easy Access tool (src/easy_access_cli.py): the stage     *)
(* list built by EasyAccessTool.__init__, the stages run by                *)
(* EasyAccessTool.run, and the polars / openpyxl operations they use.      *)
(*                                                                         *)
(* A data frame is a record [columns, rows]: columns is the ordered list   *)
(* of column names, rows is a bag of rows, each row a function from the    *)
(* column names to cell values.  Row order never decides anything in the   *)
(* code (joins, filters, unique() and concat are order-insensitive up to   *)
(* the order of the result), so rows are kept as a bag: multiplicity is    *)
(* kept, order is not.  Cell values are strings; Null is polars' null.     *)
(* The material_id column of an export is text in this model, so that the  *)
(* cast to str of validate_ea_sheet leaves the cells as they are.          *)
(*                                                                         *)
(* columns always lists every column of a frame.  A row holds the cells of *)
(* the columns whose values some stage reads or sets (Tracked); the cells  *)
(* of the other columns are the same in every row of every input of the    *)
(* model and are left out of the rows.                                     *)
(***************************************************************************)
EXTENDS Integers, Sequences, FiniteSets, Bags, TLC

VARIABLES
    dirs,                    \* EasyAccessTool.dirs: the directories on disk
    pc,                      \* "idle" | "running" | "done" | "aborted"
    settings,                \* self.settings: the stage list of this run
    step,                    \* index in settings of the next stage to run
    only_changes,            \* self.only_changes
    other_sheet,             \* self.other_sheet (None, or the file it names)
    raw_copyright_data,      \* self.raw_copyright_data
    copyright_data,          \* self.copyright_data
    faculty_sheet_data,      \* self.faculty_sheet_data
    faculties,               \* self.faculties (Undefined until assigned)
    latest_file_date,        \* self.latest_file_date (Undefined until assigned)
    no_new_items,            \* self.no_new_items
    style_iter,              \* self.style_iter
    not_in_faculty,          \* local of process_copyright_export, as last computed
    matching_id_diff_change, \* local of process_copyright_export, as last computed
    reconciled,              \* how the only_changes branch of this run ended: "no"
                             \* (not run), "bootstrap", "compared", or the place
                             \* it raised: "read_raised", "compare_raised",
                             \* "concat_raised"
    written,                 \* the paths this run has written, in order
    runs,                    \* number of runs started so far
    last_run                 \* what the previous run was: its export, flags, outcome

vars == << dirs, pc, settings, step, only_changes, other_sheet, raw_copyright_data,
           copyright_data, faculty_sheet_data, faculties, latest_file_date,
           no_new_items, style_iter, not_in_faculty, matching_id_diff_change,
           reconciled, written, runs, last_run >>

(***************************************************************************)
(* Bounds of the model.                                                    *)
(***************************************************************************)
MaxRows == 2        \* rows of one export
MaxExports == 2     \* exports dropped into the export directory
MaxRuns == 3        \* invocations of the tool

(***************************************************************************)
(* Values.                                                                 *)
(***************************************************************************)
Null == "<null>"            \* polars null / an empty spreadsheet cell
Undefined == "<undefined>"  \* an attribute that is annotated but never assigned
NoDate == << >>             \* a null datetime

Range(s) == { s[i] : i \in DOMAIN s }

\* The bag of F(x) for x in bag B: F(x) as many times as B holds x.
RECURSIVE MapInto(_, _, _, _)
MapInto(B, F(_), S, acc) ==
    IF S = {} THEN acc
    ELSE LET x == CHOOSE y \in S : TRUE
         IN MapInto(B, F, S \ {x}, acc (+) (F(x) :> B[x]))

BagMap(B, F(_)) == MapInto(B, F, DOMAIN B, EmptyBag)

\* The bag of the x in bag B that satisfy P.
BagFilter(B, P(_)) == [ x \in { y \in DOMAIN B : P(y) } |-> B[x] ]

\* The elements of a set of strings as a sorted list (list.sort()).  TLC has
\* no order on strings: the order is that of the list SortKey.
RECURSIVE SortBy(_, _)
SortBy(S, key) ==
    IF key = << >> THEN << >>
    ELSE IF Head(key) \in S THEN << Head(key) >> \o SortBy(S, Tail(key))
         ELSE SortBy(S, Tail(key))

(***************************************************************************)
(* The record schema.                                                      *)
(***************************************************************************)
column_order ==
    << "material_id", "period", "department", "course_code", "course_name", "url",
       "filename", "title", "owner", "filetype", "classification", "type",
       "ml_prediction", "manual_classification", "manual_identifier", "scope",
       "remarks", "auditor", "last_change", "status", "google_search_file", "isbn",
       "doi", "in_collection", "pagecount", "wordcount", "picturecount", "author",
       "publisher", "reliability", "pages_x_students", "count_students_registered",
       "retrieved_from_copyright_on", "workflow_status", "faculty" >>

DEPARTMENT_MAPPING == [ d \in {"CS", "NA"} |-> IF d = "CS" THEN "EEMCS" ELSE "" ]

\* lexicographic order of the category values the model can produce
SortKey == << "", "EEMCS", "Unmapped" >>

(***************************************************************************)
(* polars data frames.                                                     *)
(***************************************************************************)
\* The columns whose cells the rows hold, under their raw names, their schema
\* names and the names an inner join gives them.
TrackedNames ==
    { "Material id", "Department", "Last change", "Status",
      "material_id", "department", "last_change", "status",
      "retrieved_from_copyright_on", "added_to_sheet_on", "workflow_status",
      "faculty" }

Tracked == TrackedNames \cup { c \o "_right" : c \in TrackedNames }

Cells(columns) == Range(columns) \cap Tracked

DataFrame == [ columns |-> << >>, rows |-> EmptyBag ]      \* pl.DataFrame()

is_empty(df) == DOMAIN df.rows = {}

len(df) == BagCardinality(df.rows)

\* df.filter(P)
filter(df, P(_)) == [ columns |-> df.columns, rows |-> BagFilter(df.rows, P) ]

\* df.select(cols): the named columns in the order given.
select(df, cols) ==
    LET proj(r) == [ c \in Cells(cols) |-> r[c] ]
    IN [ columns |-> cols, rows |-> BagMap(df.rows, proj) ]

select_raises(df, cols) == ~ (Range(cols) \subseteq Range(df.columns))

\* pl.all().exclude(name): every column but the named one, in order.
exclude(cols, name) == SelectSeq(cols, LAMBDA c : c # name)

\* df.drop_nulls(col)
drop_nulls(df, col) == filter(df, LAMBDA r : r[col] # Null)

\* df.unique(): duplicate rows are collapsed.
unique(df) == [ columns |-> df.columns, rows |-> SetToBag(BagToSet(df.rows)) ]

\* Join keys match when they are equal and not null (join_nulls is False).
KeysMatch(l, r, on) == l[on] # Null /\ l[on] = r[on]

\* An anti-join that also compares last_change.
join_anti_on_change(left, right, on) ==
    filter(left, LAMBDA l : ~ \E r \in DOMAIN right.rows :
                                KeysMatch(l, r, on) /\ l["last_change"] = r["last_change"])

\* left.join(right, on, how="anti"): the left rows with no match on the right.
join_anti(left, right, on) ==
    filter(left, LAMBDA l : ~ \E r \in DOMAIN right.rows : KeysMatch(l, r, on))

\* The name a non-key column of the right frame gets in an inner join: a name
\* that the left frame has too is given the suffix "_right".
RightName(c, left) == IF c \in Range(left.columns) THEN c \o "_right" ELSE c

join_columns(left, right, on) ==
    left.columns \o
    [ i \in 1..Len(exclude(right.columns, on)) |->
        RightName(exclude(right.columns, on)[i], left) ]

\* The column of the right frame that the joined column c comes from.
RightSource(c, left, rcols) ==
    rcols[CHOOSE i \in DOMAIN rcols : RightName(rcols[i], left) = c]

\* The row an inner join makes of the left row l and the right row r.
JoinRow(l, r, left, rcols, columns) ==
    [ c \in Cells(columns) |->
        IF c \in Range(left.columns) THEN l[c] ELSE r[RightSource(c, left, rcols)] ]

MatchingPairs(left, right, on) ==
    { p \in (DOMAIN left.rows) \X (DOMAIN right.rows) : KeysMatch(p[1], p[2], on) }

\* left.join(right, on, how="inner"): one row per matching pair, holding the
\* left row's cells and the right row's non-key cells.
join_inner(left, right, on) ==
    [ columns |-> join_columns(left, right, on),
      rows |-> BagMap([ p \in MatchingPairs(left, right, on) |->
                          left.rows[p[1]] * right.rows[p[2]] ],
                      LAMBDA p : JoinRow(p[1], p[2], left, exclude(right.columns, on),
                                         join_columns(left, right, on))) ]

join_raises(left, right, on) ==
    on \notin Range(left.columns) \/ on \notin Range(right.columns)

\* pl.concat([a, b]) (how="vertical"): the rows of both; raises when the two
\* frames do not have the same columns.
concat(a, b) == [ columns |-> a.columns, rows |-> a.rows (+) b.rows ]

concat_raises(a, b) == a.columns # b.columns

(***************************************************************************)
(* A raw CopyRight export.  TLC's strings are atomic: Spelling gives the    *)
(* words and symbols of a raw column name, so that the header rewrite of   *)
(* process_copyright_export can be applied to it piece by piece.           *)
(***************************************************************************)
RawHeader ==
    << "Material id", "Period", "Department", "course code", "course name", "url",
       "filename", "title", "owner", "filetype", "classification", "type",
       "ML prediction", "manual classification", "manual identifier", "scope",
       "remarks", "auditor", "Last change", "Status", "google search file", "isbn",
       "doi", "in collection", "pagecount", "wordcount", "picturecount", "author",
       "publisher", "reliability", "pages * students", "#students registered" >>

\* The words and symbols a raw column name is written with.
Spelling(col) ==
    CASE col = "Material id" -> << "Material", " ", "id" >>
      [] col = "course code" -> << "course", " ", "code" >>
      [] col = "course name" -> << "course", " ", "name" >>
      [] col = "ML prediction" -> << "ML", " ", "prediction" >>
      [] col = "manual classification" -> << "manual", " ", "classification" >>
      [] col = "manual identifier" -> << "manual", " ", "identifier" >>
      [] col = "Last change" -> << "Last", " ", "change" >>
      [] col = "google search file" -> << "google", " ", "search", " ", "file" >>
      [] col = "in collection" -> << "in", " ", "collection" >>
      [] col = "pages * students" -> << "pages", " ", "*", " ", "students" >>
      [] col = "#students registered" -> << "#", "students", " ", "registered" >>
      [] OTHER -> << col >>

\* str.lower() on the words of RawHeader
lower(w) ==
    CASE w = "Material" -> "material"
      [] w = "Period" -> "period"
      [] w = "Department" -> "department"
      [] w = "ML" -> "ml"
      [] w = "Last" -> "last"
      [] w = "Status" -> "status"
      [] OTHER -> w

\* "".join of the pieces of a name, each rewritten
RECURSIVE Rewrite(_)
Rewrite(pieces) ==
    IF pieces = << >> THEN ""
    ELSE LET t == Head(pieces)
             u == IF t = " " THEN "_"
                  ELSE IF t = "#" THEN "count_"
                  ELSE IF t = "*" THEN "x"
                  ELSE t
         IN lower(u) \o Rewrite(Tail(pieces))

\* col.replace(" ", "_").replace("#", "count_").replace("*", "x").lower()
rename_col(col) == Rewrite(Spelling(col))

\* df.rename(f): every column renamed, the cells unchanged.
rename(df, f(_)) ==
    LET new == [ i \in 1..Len(df.columns) |-> f(df.columns[i]) ]
        old == [ c \in Range(new) |-> df.columns[CHOOSE i \in DOMAIN new : new[i] = c] ]
        row(r) == [ c \in Cells(new) |-> r[old[c]] ]
    IN [ columns |-> new, rows |-> BagMap(df.rows, row) ]

\* df.with_columns(name = value(row)): the column is replaced where it is, or
\* added after the last column when the frame has no column of that name.
with_column(df, name, value(_)) ==
    LET cols == IF name \in Range(df.columns) THEN df.columns
                ELSE Append(df.columns, name)
        row(r) == [ c \in Cells(cols) |-> IF c = name THEN value(r) ELSE r[c] ]
    IN [ columns |-> cols, rows |-> BagMap(df.rows, row) ]

\* Two decimal digits of a day or month number.
Pad2(n) == IF n < 10 THEN "0" \o ToString(n) ELSE ToString(n)

\* datetime.strftime("%Y-%m-%d") of the datetime <<year, month, day>>
strftime(dt) ==
    IF dt = NoDate THEN Null
    ELSE ToString(dt[1]) \o "-" \o Pad2(dt[2]) \o "-" \o Pad2(dt[3])

\* A replacement that leaves a value without an entry as it is.
replace_lenient(v, mapping, default) ==
    IF v \in DOMAIN mapping THEN mapping[v] ELSE v

\* pl.col("department").replace_strict(mapping, default="Unmapped")
replace_strict(v, mapping, default) ==
    IF v \in DOMAIN mapping THEN mapping[v] ELSE default

\* The raw records the exports of the model are made of: two materials, two
\* modification dates, two statuses; a department with a category ("CS"),
\* one with none ("XX") and one mapped to the empty category ("NA").
RawIds == { "m1", "m2" }
RawChanges == { <<2024, 1, 1>>, <<2024, 2, 1>> }
RawStatuses == { "Deleted", "Active" }

RawDepartment(id, st) ==
    IF id = "m1" THEN "CS" ELSE IF st = "Active" THEN "XX" ELSE "NA"

RawRecord(id, lc, st) ==
    [ c \in Cells(RawHeader) |->
        CASE c = "Material id" -> id
          [] c = "Last change" -> lc
          [] c = "Status" -> st
          [] c = "Department" -> RawDepartment(id, st) ]

RawRecords == { RawRecord(id, lc, st) : id \in RawIds, lc \in RawChanges, st \in RawStatuses }

SeqToBag(s) == [ x \in Range(s) |-> Cardinality({ i \in DOMAIN s : s[i] = x }) ]

\* The exports: one to MaxRows raw records, repeats allowed.
Exports ==
    { [ columns |-> RawHeader, rows |-> SeqToBag(s) ] :
        s \in UNION { [ 1..n -> RawRecords ] : n \in 1..MaxRows } }

\* The creation date of the n-th export dropped into the export directory.
CreatedOn(n) == << 2024, 3, n >>

(***************************************************************************)
(* Spreadsheet files.  A workbook is the list of its sheets, a sheet a     *)
(* title and a table; a workbook with no sheet stands for a file that      *)
(* cannot be read as a table.                                              *)
(***************************************************************************)
\* What a cell holds once written: an empty string is written as a blank cell.
ExcelCell(v) == IF v = "" THEN Null ELSE v

\* df.write_excel(path): a new workbook with the frame on its only sheet.
write_excel(df) ==
    LET row(r) == [ c \in Cells(df.columns) |-> ExcelCell(r[c]) ]
    IN [ extension |-> ".xlsx",
         sheets |-> << [ title |-> "Sheet1", columns |-> df.columns,
                         rows |-> BagMap(df.rows, row) ] >> ]

SheetFrame(sh) == [ columns |-> sh.columns, rows |-> sh.rows ]

\* pl.read_excel(path, sheet_name=name)
read_excel_named(file, name) ==
    SheetFrame(file.sheets[CHOOSE i \in DOMAIN file.sheets : file.sheets[i].title = name])

read_excel_named_raises(file, name) ==
    ~ \E i \in DOMAIN file.sheets : file.sheets[i].title = name

\* pl.read_excel(path): the first sheet
read_excel(file) == SheetFrame(file.sheets[1])

read_excel_raises(file) == file.sheets = << >>

\* validate_ea_sheet: an empty sheet is invalid; otherwise the columns that are
\* not text are cast to str (every column of the model is text).
validate_ea_sheet(df) == IF is_empty(df) THEN DataFrame ELSE df

\* The frame read_sheets takes from one file (lines 700-705).
ReadOne(file) ==
    validate_ea_sheet(IF read_excel_named_raises(file, "Complete data")
                      THEN read_excel(file)
                      ELSE read_excel_named(file, "Complete data"))

ExcelFiles(files) == { f \in files : f.extension \in { ".xls", ".xlsx" } }

ValidFrames(files) == { ReadOne(f) : f \in ExcelFiles(files) } \ { DataFrame }

read_sheets_raises(files) ==
    \/ \E f \in ExcelFiles(files) :
          read_excel_named_raises(f, "Complete data") /\ read_excel_raises(f)
    \/ \E a, b \in ValidFrames(files) : concat_raises(a, b)

\* read_sheets(files): the rows of the valid files, duplicates collapsed.
RECURSIVE concat_all(_)
concat_all(frames) ==
    LET f == CHOOSE x \in frames : TRUE
    IN IF frames = { f } THEN f ELSE concat(f, concat_all(frames \ { f }))

read_sheets(files) ==
    LET file_data == ValidFrames(files)
    IN IF file_data # {} THEN unique(concat_all(file_data)) ELSE unique(DataFrame)

\* Directory.files_r: every file below the directory.
files_r(dir) == { dir[p] : p \in DOMAIN dir }

(***************************************************************************)
(* process_copyright_export.                                               *)
(***************************************************************************)
\* Lines 512-524: the raw export with its header rewritten, the provenance
\* columns added, last_change formatted and faculty looked up.
Normalize(raw, date) ==
    LET renamed == rename(raw, rename_col)
        a == with_column(renamed, "retrieved_from_copyright_on", LAMBDA r : date)
        b == with_column(a, "workflow_status", LAMBDA r : "ToDo")
        c == with_column(b, "last_change", LAMBDA r : strftime(r["last_change"]))
    IN with_column(c, "faculty",
                   LAMBDA r : replace_strict(r["department"], DEPARTMENT_MAPPING, "Unmapped"))

\* pl.col(a) != pl.col(b): a comparison with null is null, and filter drops it.
NotEqual(r, a, b) == r[a] # Null /\ r[b] # Null /\ r[a] # r[b]

\* pl.col(a) == v
Equal(r, a, v) == r[a] # Null /\ r[a] = v

\* pl.all().exclude(name) selected from df
select_all_but(df, name) == select(df, exclude(df.columns, name))

\* Lines 539-551: the rows of the export that match a previous row on
\* material_id and differ from it in last_change.
MatchingIdDiffChange(data, previous) ==
    filter(
        drop_nulls(
            select_all_but(
                filter(join_inner(data, previous, "material_id"),
                       LAMBDA r : NotEqual(r, "last_change", "last_change_right")),
                "last_change_right"),
            "material_id"),
        LAMBDA r : Equal(r, "status", "Deleted"))

\* The comparison raises when a column it names is missing.
compare_raises(data, previous) ==
    \/ join_raises(data, previous, "material_id")
    \/ ~ ({ "last_change", "status" } \subseteq Range(data.columns))
    \/ "last_change" \notin Range(previous.columns)

\* series.unique().to_list(): the distinct values, in an order polars picks.
to_list(S) == SortBy(S, << "Unmapped", "EEMCS", "", Null >>)

FacultyValues(df) == { r["faculty"] : r \in DOMAIN df.rows }

\* A merge that sets no_new_items as soon as nothing is newly seen.
Merge_nothing_new(data, nif, midc) ==
    LET first == IF is_empty(nif) /\ ~ is_empty(midc) THEN midc ELSE data
    IN [ no_new_items |-> is_empty(nif),
         raised |-> ~ is_empty(midc) /\ concat_raises(nif, midc),
         copyright_data |-> IF ~ is_empty(midc)
                            THEN IF concat_raises(nif, midc) THEN first
                                 ELSE concat(nif, midc)
                            ELSE nif ]

\* Lines 553-562: what is left in copyright_data and no_new_items, and
\* whether pl.concat raised.
Merge(data, nif, midc) ==
    LET first == IF is_empty(nif) /\ ~ is_empty(midc) THEN midc ELSE data
    IN [ no_new_items |-> is_empty(nif) /\ is_empty(midc),
         raised |-> ~ is_empty(midc) /\ concat_raises(nif, midc),
         copyright_data |-> IF ~ is_empty(midc)
                            THEN IF concat_raises(nif, midc) THEN first
                                 ELSE concat(nif, midc)
                            ELSE nif ]

\* The attributes and locals after lines 534-562, from the merge.
Compared(base, previous, nif, midc, merged) ==
    [ base EXCEPT !.faculty_sheet_data = previous,
                  !.not_in_faculty = nif,
                  !.matching_id_diff_change = midc,
                  !.copyright_data = merged.copyright_data,
                  !.no_new_items = base.no_new_items \/ merged.no_new_items,
                  !.reconciled = IF merged.raised THEN "concat_raised" ELSE "compared",
                  !.raised = merged.raised ]

Compare(base, data, previous, nif, midc) ==
    Compared(base, previous, nif, midc, Merge(data, nif, midc))

\* A comparison that takes "no previous rows" for "nothing new".
AgainstPrevious_nothing_new(base, data, previous) ==
    IF is_empty(previous) THEN
        [ base EXCEPT !.faculty_sheet_data = previous, !.reconciled = "bootstrap",
                      !.no_new_items = TRUE ]
    ELSE IF compare_raises(data, previous) THEN
        [ base EXCEPT !.faculty_sheet_data = previous,
                      !.reconciled = "compare_raised", !.raised = TRUE ]
    ELSE Compare(base, data, previous, join_anti(data, previous, "material_id"),
                 MatchingIdDiffChange(data, previous))

\* Lines 528-562, with the previous rows read.
AgainstPrevious(base, data, previous) ==
    IF is_empty(previous) THEN
        [ base EXCEPT !.faculty_sheet_data = previous, !.reconciled = "bootstrap" ]
    ELSE IF compare_raises(data, previous) THEN
        [ base EXCEPT !.faculty_sheet_data = previous,
                      !.reconciled = "compare_raised", !.raised = TRUE ]
    ELSE Compare(base, data, previous, join_anti(data, previous, "material_id"),
                 MatchingIdDiffChange(data, previous))

\* Lines 526-562 from the normalized data: what the stage leaves in each
\* attribute and local, and whether it raised.
Reconcile(base, data, files) ==
    IF ~ only_changes THEN base
    ELSE IF read_sheets_raises(files) THEN
        [ base EXCEPT !.reconciled = "read_raised", !.raised = TRUE ]
    ELSE AgainstPrevious(base, data, read_sheets(files))

(***************************************************************************)
(* The sheet writer and the review-sheet augmenter.                        *)
(***************************************************************************)
FileName(label, date) == label \o "_" \o date \o ".xlsx"

SuffixedName(label, date, i) == label \o "_" \o date \o "_" \o ToString(i) \o ".xlsx"

\* Lines 579-582 and 666-669: the first name that does not exist yet.
RECURSIVE NextName(_, _, _, _)
NextName(names, label, date, i) ==
    IF SuffixedName(label, date, i) \in names
    THEN NextName(names, label, date, i + 1)
    ELSE SuffixedName(label, date, i)

\* A name chosen without looking at the directory.
FreeName_unchecked(names, label, date) == FileName(label, date)

FreeName(names, label, date) ==
    IF FileName(label, date) \in names
    THEN NextName(names, label, date, 1)
    ELSE FileName(label, date)

keep_cols == << 6, 34, 14, 16, 17, 13, 1, 8, 9, 28, 3, 5 >>

col_names ==
    << "url", "workflow_status", "manual_classification", "scope", "remarks",
       "ml_prediction", "material_id", "title", "owner", "author", "department",
       "course_name" >>

\* Lines 607-630: the data entry sheet, the columns of the active sheet at the
\* positions keep_cols under the names col_names.
EntrySheet(active) ==
    LET from == [ c \in Range(col_names) |->
                    LET k == keep_cols[CHOOSE j \in DOMAIN col_names : col_names[j] = c]
                    IN IF k <= Len(active.columns) THEN active.columns[k] ELSE Null ]
        row(r) == [ c \in { x \in Range(col_names) : from[x] \in Tracked } |-> r[from[c]] ]
    IN [ title |-> "Data entry", columns |-> col_names,
         rows |-> BagMap(active.rows, row) ]

\* A finalize_sheet that puts the data entry sheet first.
finalize_sheet_entry_first(file) ==
    LET active == [ file.sheets[1] EXCEPT !.title = "Complete data" ]
    IN [ file EXCEPT !.sheets = << EntrySheet(active), active >> \o Tail(file.sheets) ]

\* finalize_sheet: the active sheet is renamed and the data entry sheet is
\* inserted right after it.
finalize_sheet(file) ==
    LET active == [ file.sheets[1] EXCEPT !.title = "Complete data" ]
    IN [ file EXCEPT !.sheets = << active, EntrySheet(active) >> \o Tail(file.sheets) ]

NamesIn(dir, sub) == { p[2] : p \in { q \in DOMAIN dir : q[1] = sub } }

\* A loop that keeps the category value as the label.
Relabel_kept(faculty) == faculty

\* Lines 576-577: the label of the empty category.
Relabel(faculty) == IF faculty = "" THEN "no_faculty_found" ELSE faculty

\* The loop of create_faculty_sheets from the i-th category on.  st holds the
\* category directory, the paths written, style_iter and whether the loop
\* raised; fail is the index of the category whose file cannot be reopened by
\* load_workbook (0: none).
RECURSIVE WriteFaculties(_, _, _, _)
WriteFaculties(list, i, fail, st) ==
    IF i > Len(list) THEN st
    ELSE LET sub == list[i]
             faculty == Relabel(list[i])
             filename == FreeName(NamesIn(st.dir, sub), faculty, latest_file_date)
             faculty_data == filter(copyright_data, LAMBDA r : Equal(r, "faculty", faculty))
             path == << sub, filename >>
             file == write_excel(faculty_data)
         IN IF fail = i
            THEN [ st EXCEPT !.dir = path :> file @@ st.dir,
                             !.written = Append(st.written, << "faculties", path >>),
                             !.raised = TRUE ]
            ELSE WriteFaculties(list, i + 1, fail,
                   [ st EXCEPT !.dir = path :> finalize_sheet(file) @@ st.dir,
                               !.written = Append(st.written, << "faculties", path >>),
                               !.style_iter = st.style_iter + 1 ])

(***************************************************************************)
(* Alternate source sheets (--other-sheet): sheets laid out like the       *)
(* output sheets.  One carries every schema column, one lacks the two      *)
(* provenance columns, one names the retrieval date added_to_sheet_on.     *)
(***************************************************************************)
OtherRow(id, fac, on) ==
    [ c \in Cells(column_order) |->
        CASE c = "material_id" -> id
          [] c = "last_change" -> "2024-01-01"
          [] c = "status" -> "Active"
          [] c = "department" -> "CS"
          [] c = "retrieved_from_copyright_on" -> on
          [] c = "workflow_status" -> "Done"
          [] c = "faculty" -> fac ]

OtherFull ==
    [ columns |-> column_order,
      rows |-> SetToBag({ OtherRow("m1", "EEMCS", "2024-02-10"),
                          OtherRow("m2", "Unmapped", "2024-02-20") }) ]

OtherBare == select(OtherFull, SelectSeq(column_order,
                 LAMBDA c : c \notin { "workflow_status", "retrieved_from_copyright_on" }))

OtherAdded ==
    rename(OtherFull, LAMBDA c : IF c = "retrieved_from_copyright_on"
                                 THEN "added_to_sheet_on" ELSE c)

OtherSheets == { write_excel(OtherFull), write_excel(OtherBare), write_excel(OtherAdded) }

\* File.modified of the alternate sheet
OtherModified == << 2024, 2, 15 >>

\* max() of a list of dates written YYYY-MM-DD
max(S) == Head(SortBy(S, << "2024-02-20", "2024-02-15", "2024-02-10" >>))

\* Lines 463-482.
ReadOther(file) ==
    LET data == read_excel(file)
        date == strftime(OtherModified)
        a == IF "workflow_status" \notin Range(data.columns)
             THEN with_column(data, "workflow_status", LAMBDA r : "ToDo")
             ELSE data
        b == IF "retrieved_from_copyright_on" \notin Range(a.columns)
             THEN IF "added_to_sheet_on" \notin Range(a.columns)
                  THEN with_column(a, "retrieved_from_copyright_on", LAMBDA r : date)
                  ELSE rename(a, LAMBDA c : IF c = "added_to_sheet_on"
                                            THEN "retrieved_from_copyright_on" ELSE c)
             ELSE a
    IN [ copyright_data |-> select(b, column_order),
         latest_file_date |-> max({ r["retrieved_from_copyright_on"] : r \in DOMAIN b.rows }),
         raised |-> read_excel_raises(file) \/ is_empty(b) \/ select_raises(b, column_order) ]

(***************************************************************************)
(* The state machine: invocations of the tool, one stage per step, and the *)
(* arrival of new exports between invocations.                             *)
(***************************************************************************)
\* The export directory with no file in it.
NoFile == [ created |-> 0, data |-> DataFrame ]

\* self.faculties before any stage assigned it: the class body only annotates it.
NoFaculties == << Undefined >>

NoRun == [ settings |-> << >>, only_changes |-> FALSE, export |-> 0, pc |-> "idle" ]

\* The attributes as the class body sets them (lines 337-373).
Fresh ==
    /\ raw_copyright_data' = DataFrame
    /\ copyright_data' = DataFrame
    /\ faculty_sheet_data' = DataFrame
    /\ faculties' = NoFaculties
    /\ latest_file_date' = Undefined
    /\ no_new_items' = FALSE
    /\ style_iter' = 2
    /\ not_in_faculty' = DataFrame
    /\ matching_id_diff_change' = DataFrame
    /\ reconciled' = "no"
    /\ written' = << >>

Init ==
    /\ dirs = [ copyright_export |-> NoFile, faculties |-> << >>, all_items |-> << >> ]
    /\ pc = "idle"
    /\ settings = << >>
    /\ step = 1
    /\ only_changes = TRUE
    /\ other_sheet = Null
    /\ raw_copyright_data = DataFrame
    /\ copyright_data = DataFrame
    /\ faculty_sheet_data = DataFrame
    /\ faculties = NoFaculties
    /\ latest_file_date = Undefined
    /\ no_new_items = FALSE
    /\ style_iter = 2
    /\ not_in_faculty = DataFrame
    /\ matching_id_diff_change = DataFrame
    /\ reconciled = "no"
    /\ written = << >>
    /\ runs = 0
    /\ last_run = NoRun

\* The created stamp of the newest export (0: the directory is empty).
NewestExport == dirs.copyright_export.created

\* A new export arrives in the export directory, once the one before it has
\* been seen by a run.  Only the newest file of the directory is ever read
\* (line 489), so only the newest is kept.
DropExport(data) ==
    /\ pc = "idle"
    /\ runs < MaxRuns
    /\ NewestExport < MaxExports
    /\ last_run.export = NewestExport
    /\ dirs' = [ dirs EXCEPT !.copyright_export =
                   [ created |-> NewestExport + 1, data |-> data ] ]
    /\ UNCHANGED << pc, settings, step, only_changes, other_sheet, raw_copyright_data,
                    copyright_data, faculty_sheet_data, faculties, latest_file_date,
                    no_new_items, style_iter, not_in_faculty, matching_id_diff_change,
                    reconciled, written, runs, last_run >>

\* Lines 412-437: the stage list of a run.
Settings(functions, other) ==
    CASE functions = "both" /\ other = Null ->
           << "read_copyright_export", "process_copyright_export",
              "read_all_items_sheet", "read_faculty_sheets", "create_import_sheet",
              "create_faculty_sheets", "create_all_items_sheet" >>
      [] functions = "both" /\ other # Null ->
           << "read_other_sheet", "read_all_items_sheet", "read_faculty_sheets",
              "create_import_sheet", "create_faculty_sheets", "create_all_items_sheet" >>
      [] functions = "read" /\ other = Null ->
           << "read_copyright_export", "process_copyright_export",
              "create_faculty_sheets", "create_all_items_sheet" >>
      [] functions = "read" /\ other # Null ->
           << "read_other_sheet", "process_copyright_export",
              "create_faculty_sheets", "create_all_items_sheet" >>
      [] functions = "export" ->
           << "read_faculty_sheets", "create_import_sheet" >>

\* cli() and EasyAccessTool.__init__: a new process, a new tool object.
Start(functions, changes, other) ==
    /\ pc = "idle"
    /\ runs < MaxRuns
    /\ runs' = runs + 1
    /\ pc' = "running"
    /\ settings' = Settings(functions, other)
    /\ step' = 1
    /\ only_changes' = changes
    /\ other_sheet' = other
    /\ Fresh
    /\ UNCHANGED << dirs, last_run >>

\* run(): the stage about to be called.
AtStage(name) == pc = "running" /\ step <= Len(settings) /\ settings[step] = name

\* The stage returned: run() goes on to the next one, or is done.
Returned ==
    /\ step' = step + 1
    /\ pc' = IF step = Len(settings) THEN "done" ELSE "running"

\* The stage raised: the exception ends the process.
Raised == pc' = "aborted" /\ step' = step

\* read_copyright_export (lines 485-501): the newest export is read; with no
\* file in the directory max() raises ValueError and the process exits.
read_copyright_export ==
    /\ AtStage("read_copyright_export")
    /\ IF dirs.copyright_export = NoFile
       THEN /\ Raised
            /\ UNCHANGED << raw_copyright_data, latest_file_date >>
       ELSE /\ Returned
            /\ latest_file_date' = strftime(CreatedOn(dirs.copyright_export.created))
            /\ raw_copyright_data' = dirs.copyright_export.data
    /\ UNCHANGED << dirs, settings, only_changes, other_sheet, copyright_data,
                    faculty_sheet_data, faculties, no_new_items, style_iter,
                    not_in_faculty, matching_id_diff_change, reconciled, written,
                    runs, last_run >>

\* read_other_sheet (lines 454-482)
read_other_sheet(file) ==
    /\ AtStage("read_other_sheet")
    /\ LET res == ReadOther(file)
       IN IF res.raised
          THEN /\ Raised
               /\ UNCHANGED << copyright_data, latest_file_date >>
          ELSE /\ Returned
               /\ copyright_data' = res.copyright_data
               /\ latest_file_date' = res.latest_file_date
    /\ UNCHANGED << dirs, settings, only_changes, other_sheet, raw_copyright_data,
                    faculty_sheet_data, faculties, no_new_items, style_iter,
                    not_in_faculty, matching_id_diff_change, reconciled, written,
                    runs, last_run >>

\* Lines 511-524: copyright_data, normalized from the raw export unless a stage
\* before has filled it.
Normalized ==
    IF is_empty(copyright_data)
    THEN Normalize(raw_copyright_data, latest_file_date)
    ELSE copyright_data

\* The attributes process_copyright_export works on, with the data it starts
\* from (lines 511-524).
Before(data) ==
    [ copyright_data |-> data, faculty_sheet_data |-> faculty_sheet_data,
      not_in_faculty |-> not_in_faculty,
      matching_id_diff_change |-> matching_id_diff_change,
      no_new_items |-> no_new_items, reconciled |-> "no", raised |-> FALSE ]

\* The end of process_copyright_export: line 565, unless a line before raised.
Processed(res) ==
    /\ copyright_data' = res.copyright_data
    /\ faculty_sheet_data' = res.faculty_sheet_data
    /\ not_in_faculty' = res.not_in_faculty
    /\ matching_id_diff_change' = res.matching_id_diff_change
    /\ no_new_items' = res.no_new_items
    /\ reconciled' = res.reconciled
    /\ IF res.raised
       THEN Raised /\ UNCHANGED faculties
       ELSE Returned /\ faculties' = to_list(FacultyValues(res.copyright_data))

\* process_copyright_export (lines 503-565)
process_copyright_export ==
    /\ AtStage("process_copyright_export")
    /\ Processed(Reconcile(Before(Normalized), Normalized, files_r(dirs.faculties)))
    /\ UNCHANGED << dirs, settings, only_changes, other_sheet, raw_copyright_data,
                    latest_file_date, style_iter, written, runs, last_run >>

\* read_faculty_sheets (lines 673-678)
read_faculty_sheets ==
    /\ AtStage("read_faculty_sheets")
    /\ IF read_sheets_raises(files_r(dirs.faculties))
       THEN Raised /\ UNCHANGED faculty_sheet_data
       ELSE Returned /\ faculty_sheet_data' = read_sheets(files_r(dirs.faculties))
    /\ UNCHANGED << dirs, settings, only_changes, other_sheet, raw_copyright_data,
                    copyright_data, faculties, latest_file_date, no_new_items,
                    style_iter, not_in_faculty, matching_id_diff_change, reconciled,
                    written, runs, last_run >>

\* read_all_items_sheet (lines 680-687): the read is behind "if False".
read_all_items_sheet ==
    /\ AtStage("read_all_items_sheet")
    /\ Returned
    /\ UNCHANGED << dirs, settings, only_changes, other_sheet, raw_copyright_data,
                    copyright_data, faculty_sheet_data, faculties, latest_file_date,
                    no_new_items, style_iter, not_in_faculty, matching_id_diff_change,
                    reconciled, written, runs, last_run >>

\* create_import_sheet (lines 752-760): a stub.
create_import_sheet ==
    /\ AtStage("create_import_sheet")
    /\ Returned
    /\ UNCHANGED << dirs, settings, only_changes, other_sheet, raw_copyright_data,
                    copyright_data, faculty_sheet_data, faculties, latest_file_date,
                    no_new_items, style_iter, not_in_faculty, matching_id_diff_change,
                    reconciled, written, runs, last_run >>

\* A create_faculty_sheets that removes what it wrote when a file cannot be
\* reopened.
create_faculty_sheets_rollback(fail) ==
    /\ AtStage("create_faculty_sheets")
    /\ IF faculties = NoFaculties
       THEN /\ fail = 0
            /\ Raised
            /\ UNCHANGED << dirs, faculties, style_iter, written >>
       ELSE IF Null \in Range(faculties)
       THEN /\ fail = 0
            /\ Raised
            /\ UNCHANGED << dirs, faculties, style_iter, written >>
       ELSE LET sorted == SortBy(Range(faculties), SortKey)
                res == WriteFaculties(sorted, 1, fail,
                          [ dir |-> dirs.faculties, written |-> written,
                            style_iter |-> style_iter, raised |-> FALSE ])
            IN /\ fail \in 0..Len(faculties)
               /\ faculties' = sorted
               /\ dirs' = IF res.raised THEN dirs
                          ELSE [ dirs EXCEPT !.faculties = res.dir ]
               /\ written' = res.written
               /\ style_iter' = res.style_iter
               /\ IF res.raised THEN Raised ELSE Returned
    /\ UNCHANGED << settings, only_changes, other_sheet, raw_copyright_data,
                    copyright_data, faculty_sheet_data, latest_file_date,
                    no_new_items, not_in_faculty, matching_id_diff_change,
                    reconciled, runs, last_run >>

\* create_faculty_sheets (lines 567-591).  self.faculties is read before any
\* stage assigned it when process_copyright_export is not in the stage list
\* (AttributeError); a null category cannot be sorted with, or joined to a
\* path like, a string (TypeError).  fail names the category whose file
\* load_workbook cannot reopen (0: every file is reopened).
create_faculty_sheets(fail) ==
    /\ AtStage("create_faculty_sheets")
    /\ IF faculties = NoFaculties
       THEN /\ fail = 0
            /\ Raised
            /\ UNCHANGED << dirs, faculties, style_iter, written >>
       ELSE IF Null \in Range(faculties)
       THEN /\ fail = 0
            /\ Raised
            /\ UNCHANGED << dirs, faculties, style_iter, written >>
       ELSE LET sorted == SortBy(Range(faculties), SortKey)
                res == WriteFaculties(sorted, 1, fail,
                          [ dir |-> dirs.faculties, written |-> written,
                            style_iter |-> style_iter, raised |-> FALSE ])
            IN /\ fail \in 0..Len(faculties)
               /\ faculties' = sorted
               /\ dirs' = [ dirs EXCEPT !.faculties = res.dir ]
               /\ written' = res.written
               /\ style_iter' = res.style_iter
               /\ IF res.raised THEN Raised ELSE Returned
    /\ UNCHANGED << settings, only_changes, other_sheet, raw_copyright_data,
                    copyright_data, faculty_sheet_data, latest_file_date,
                    no_new_items, not_in_faculty, matching_id_diff_change,
                    reconciled, runs, last_run >>

\* create_all_items_sheet (lines 659-672)
create_all_items_sheet ==
    /\ AtStage("create_all_items_sheet")
    /\ Returned
    /\ IF ~ no_new_items
       THEN LET filename == FreeName(DOMAIN dirs.all_items, "all_items", latest_file_date)
            IN /\ dirs' = [ dirs EXCEPT !.all_items =
                              filename :> write_excel(copyright_data) @@ dirs.all_items ]
               /\ written' = Append(written, << "all_items", filename >>)
       ELSE UNCHANGED << dirs, written >>
    /\ UNCHANGED << settings, only_changes, other_sheet, raw_copyright_data,
                    copyright_data, faculty_sheet_data, faculties, latest_file_date,
                    no_new_items, style_iter, not_in_faculty, matching_id_diff_change,
                    reconciled, runs, last_run >>

\* The process ends; nothing but the files outlives it.
Exit ==
    /\ pc \in { "done", "aborted" }
    /\ pc' = "idle"
    /\ last_run' = [ settings |-> settings, only_changes |-> only_changes,
                     export |-> NewestExport, pc |-> pc ]
    /\ settings' = << >>
    /\ step' = 1
    /\ only_changes' = TRUE
    /\ other_sheet' = Null
    /\ Fresh
    /\ UNCHANGED << dirs, runs >>

\* Files in the categories directory that the tool did not write: a text file,
\* and the owner file Excel keeps next to an open workbook, which has the
\* extension of a workbook and cannot be read as one.
ForeignFiles ==
    ("notes.txt" :> [ extension |-> ".txt", sheets |-> << >> ])
    @@ ("~$EEMCS.xlsx" :> [ extension |-> ".xlsx", sheets |-> << >> ])

\* Someone puts a file in the root of the categories directory between runs.
DropForeign(name) ==
    /\ pc = "idle"
    /\ runs < MaxRuns
    /\ << "", name >> \notin DOMAIN dirs.faculties
    /\ dirs' = [ dirs EXCEPT !.faculties = << "", name >> :> ForeignFiles[name] @@ @ ]
    /\ UNCHANGED << pc, settings, step, only_changes, other_sheet, raw_copyright_data,
                    copyright_data, faculty_sheet_data, faculties, latest_file_date,
                    no_new_items, style_iter, not_in_faculty, matching_id_diff_change,
                    reconciled, written, runs, last_run >>

\* The exports the runs of every configuration are explored with.
ModeExports ==
    { [ columns |-> RawHeader, rows |-> SetToBag(S) ] :
        S \in { { RawRecord("m1", <<2024, 1, 1>>, "Active"),
                  RawRecord("m2", <<2024, 1, 1>>, "Active") },
                { RawRecord("m1", <<2024, 2, 1>>, "Deleted"),
                  RawRecord("m2", <<2024, 1, 1>>, "Deleted") } } }

\* Runs of the default configuration (--do read, no alternate sheet), with
\* and without change filtering, over every export.
Next ==
    \/ \E data \in Exports : DropExport(data)
    \/ \E changes \in BOOLEAN : Start("read", changes, Null)
    \/ read_copyright_export
    \/ process_copyright_export
    \/ create_faculty_sheets(0)
    \/ create_all_items_sheet
    \/ Exit

Spec == Init /\ [][Next]_vars

\* Runs of every configuration, over the exports ModeExports, with files that
\* cannot be reopened.
NextModes ==
    \/ \E data \in ModeExports : DropExport(data)
    \/ \E functions \in { "both", "read", "export" }, changes \in BOOLEAN,
          other \in { Null, "other.xlsx" } : Start(functions, changes, other)
    \/ read_copyright_export
    \/ \E file \in OtherSheets : read_other_sheet(file)
    \/ process_copyright_export
    \/ read_faculty_sheets
    \/ read_all_items_sheet
    \/ create_import_sheet
    \/ \E fail \in 0..Len(SortKey) : create_faculty_sheets(fail)
    \/ create_all_items_sheet
    \/ Exit

SpecModes == Init /\ [][NextModes]_vars

\* Runs that read the previous sheets back (--do read, --do export), with
\* files in the categories directory that the tool did not write.
NextReadBack ==
    \/ \E data \in ModeExports : DropExport(data)
    \/ \E name \in DOMAIN ForeignFiles : DropForeign(name)
    \/ \E changes \in BOOLEAN : Start("read", changes, Null)
    \/ Start("export", TRUE, Null)
    \/ read_copyright_export
    \/ process_copyright_export
    \/ read_faculty_sheets
    \/ create_import_sheet
    \/ create_faculty_sheets(0)
    \/ create_all_items_sheet
    \/ Exit

SpecReadBack == Init /\ [][NextReadBack]_vars

(***************************************************************************)
(* Properties.                                                             *)
(***************************************************************************)
\* The normalized set of the run: the export as lines 512-524 leave it.
NormalizedSet == Normalize(raw_copyright_data, latest_file_date)

\* The comparison with a non-empty previous set was made (lines 534-551).
Joined == reconciled \in { "compared", "concat_raised" }

\* The schema cells of a row.
Schema(r) == [ c \in Cells(column_order) |-> r[c] ]

\* The records the reconciliation emits: those of copyright_data when the
\* stage returned, none when it raised.
Emitted ==
    IF reconciled = "compared" THEN { Schema(r) : r \in DOMAIN copyright_data.rows }
    ELSE { }

\* The previous records a normalized record differs from in last_change only.
ChangedFrom(R) ==
    { P \in DOMAIN faculty_sheet_data.rows :
        P["material_id"] = R["material_id"] /\ P["last_change"] # R["last_change"] }

\* This run ended, it filtered changes, and the run before it did so too, on
\* the same export, and completed.
RanAgain ==
    /\ pc \in { "done", "aborted" }
    /\ only_changes
    /\ last_run.pc = "done"
    /\ last_run.only_changes
    /\ last_run.export # 0
    /\ last_run.export = NewestExport

\* C1: a second run with change filtering on the same export, after a first
\* one that wrote its outputs, completes with an empty reconciled set, sets
\* no_new_items and writes no file.
C1_RerunIsEmpty ==
    RanAgain => /\ pc = "done"
                /\ is_empty(copyright_data)
                /\ no_new_items
                /\ written = << >>

\* C2: a normalized record that matches a previous record on material_id and
\* differs from it in last_change is emitted when that previous record's
\* status is "Deleted" and is not emitted when no such previous record's
\* status is "Deleted", whatever the status of the record itself.
C2_PreviousStatusDecides ==
    Joined =>
        \A R \in DOMAIN NormalizedSet.rows :
            /\ (\E P \in ChangedFrom(R) : P["status"] = "Deleted") => R \in Emitted
            /\ (ChangedFrom(R) # { } /\ \A P \in ChangedFrom(R) : P["status"] # "Deleted")
                   => R \notin Emitted

\* C3: after the comparison with a non-empty previous set, a normalized
\* record is in not_in_faculty, as often as the export holds it, if and only
\* if no previous record has its material_id.
C3_AntiJoin ==
    Joined =>
        \A R \in DOMAIN NormalizedSet.rows :
            LET seen == \E P \in DOMAIN faculty_sheet_data.rows :
                            P["material_id"] = R["material_id"]
            IN /\ seen <=> R \notin DOMAIN not_in_faculty.rows
               /\ ~ seen => not_in_faculty.rows[R] = NormalizedSet.rows[R]

C3_Witness ==
    /\ Joined
    /\ ~ is_empty(not_in_faculty)
    /\ \E R \in DOMAIN NormalizedSet.rows : R \notin DOMAIN not_in_faculty.rows

\* C4: after the comparison with a non-empty previous set the stage returns
\* and copyright_data holds the records of not_in_faculty and those of
\* matching_id_diff_change and no others, so that a record whose material_id
\* a previous record has is in it only as a changed record.
C4_EmittedIsUnion ==
    Joined =>
        /\ reconciled = "compared"
        /\ select(copyright_data, column_order).rows =
               select(not_in_faculty, column_order).rows
                   (+) select(matching_id_diff_change, column_order).rows
        /\ \A R \in DOMAIN copyright_data.rows :
               (\E P \in DOMAIN faculty_sheet_data.rows :
                    P["material_id"] = R["material_id"])
                   => R \in DOMAIN matching_id_diff_change.rows

\* C5: no_new_items is set exactly when the comparison with a non-empty
\* previous set found nothing newly seen and nothing changed; while it is set
\* the run has written no file, and no step changes the directories.
C5_NoNewItems ==
    /\ [](no_new_items <=> /\ Joined
                           /\ is_empty(not_in_faculty)
                           /\ is_empty(matching_id_diff_change))
    /\ [](no_new_items => written = << >>)
    /\ [][no_new_items => dirs' = dirs]_vars

C5_Witness ==
    /\ pc = "done"
    /\ no_new_items
    /\ ~ is_empty(faculty_sheet_data)
    /\ ~ is_empty(raw_copyright_data)

\* process_copyright_export has returned in this run.
Processed_once ==
    \E i \in DOMAIN settings : settings[i] = "process_copyright_export" /\ i < step

\* C6: when change filtering is on and the previous sheets hold no record,
\* process_copyright_export leaves the normalized set as it is in
\* copyright_data, leaves no_new_items unset, and lists in faculties each
\* distinct faculty value of the normalized set once.
C6_Bootstrap ==
    /\ reconciled = "bootstrap" => pc # "aborted"
    /\ (Processed_once /\ only_changes /\ is_empty(faculty_sheet_data)) =>
           /\ copyright_data = NormalizedSet
           /\ ~ no_new_items
           /\ Range(faculties) = { r["faculty"] : r \in DOMAIN NormalizedSet.rows }
           /\ Len(faculties) = Cardinality(Range(faculties))

C6_Witness ==
    /\ Processed_once /\ only_changes /\ is_empty(faculty_sheet_data)
    /\ dirs.faculties # << >>
    /\ written = << >>
    /\ Cardinality(Range(faculties)) = 2

\* The per-category files this run wrote for the category value c.
WrittenFor(c) ==
    { i \in DOMAIN written : written[i][1] = "faculties" /\ written[i][2][1] = c }

\* The names a file with this label and date can be given.
NamesFor(label, date) ==
    { FileName(label, date) } \cup { SuffixedName(label, date, n) : n \in 1..MaxRuns }

\* C7: when a run is done, each category value of copyright_data has exactly
\* one file written by the run, in the directory of the category and named
\* after it (after no_faculty_found for the empty value), and the run wrote no
\* per-category file for any other value.
C7_OneFilePerCategory ==
    pc = "done" =>
        /\ \A c \in { r["faculty"] : r \in DOMAIN copyright_data.rows } :
               /\ Cardinality(WrittenFor(c)) = 1
               /\ \A i \in WrittenFor(c) :
                      /\ written[i][2] \in DOMAIN dirs.faculties
                      /\ written[i][2][2] \in
                             NamesFor(IF c = "" THEN "no_faculty_found" ELSE c,
                                      latest_file_date)
        /\ \A i \in DOMAIN written :
               written[i][1] = "faculties" =>
                   written[i][2][1] \in { r["faculty"] : r \in DOMAIN copyright_data.rows }

C7_Witness ==
    /\ pc = "done"
    /\ { r["faculty"] : r \in DOMAIN copyright_data.rows } = { "", "EEMCS" }
    /\ Len(written) = 3

\* name is label_date.xlsx when names does not hold it, and otherwise
\* label_date_n.xlsx for the smallest n >= 1 that names does not hold.
FirstFree(names, label, date, name) ==
    \/ name = FileName(label, date) /\ name \notin names
    \/ \E n \in 1..(MaxRuns + 1) :
          /\ name = SuffixedName(label, date, n)
          /\ name \notin names
          /\ FileName(label, date) \in names
          /\ \A j \in 1..(n - 1) : SuffixedName(label, date, j) \in names

\* The entries a step adds to written.
Added == IF Len(written') > Len(written) THEN (Len(written) + 1)..Len(written') ELSE { }

\* C8: no step removes or changes a file of the output directories, and each
\* file a step writes is a new one, named label_date.xlsx when that name is
\* free in its directory and otherwise label_date_n.xlsx with the smallest
\* free n >= 1.
C8_CollisionSafe ==
    [][ /\ \A p \in DOMAIN dirs.faculties :
              p \in DOMAIN dirs'.faculties /\ dirs'.faculties[p] = dirs.faculties[p]
        /\ \A p \in DOMAIN dirs.all_items :
              p \in DOMAIN dirs'.all_items /\ dirs'.all_items[p] = dirs.all_items[p]
        /\ \A i \in Added :
              IF written'[i][1] = "faculties"
              THEN /\ written'[i][2] \in (DOMAIN dirs'.faculties) \ (DOMAIN dirs.faculties)
                   /\ FirstFree(NamesIn(dirs.faculties, written'[i][2][1]),
                                IF written'[i][2][1] = "" THEN "no_faculty_found"
                                ELSE written'[i][2][1],
                                latest_file_date, written'[i][2][2])
              ELSE /\ written'[i][2] \in (DOMAIN dirs'.all_items) \ (DOMAIN dirs.all_items)
                   /\ FirstFree(DOMAIN dirs.all_items, "all_items", latest_file_date,
                                written'[i][2])
      ]_vars

C8_Witness ==
    /\ pc = "done"
    /\ \E i, j \in DOMAIN written :
          /\ written[i] = << "all_items", SuffixedName("all_items", latest_file_date, 2) >>
          /\ written[j][1] = "faculties"
          /\ written[j][2][2] = SuffixedName("EEMCS", latest_file_date, 2)
    /\ { FileName("all_items", latest_file_date),
         SuffixedName("all_items", latest_file_date, 1) } \subseteq DOMAIN dirs.all_items

\* The workbook this run wrote as its i-th file.
FileWritten(i) ==
    IF written[i][1] = "faculties" THEN dirs.faculties[written[i][2]]
    ELSE dirs.all_items[written[i][2]]

\* C9: the primary sheet of every file written has the columns column_order,
\* and the records admitted as changed have exactly those columns too.
C9_Schema ==
    /\ \A i \in DOMAIN written : FileWritten(i).sheets[1].columns = column_order
    /\ (Joined /\ ~ is_empty(matching_id_diff_change)) =>
           matching_id_diff_change.columns = column_order

Titles(file) == [ i \in DOMAIN file.sheets |-> file.sheets[i].title ]

\* C10 as stated: when a run that wrote files is done, every file it wrote,
\* the all-items file too, has the sheet "Complete data" followed by the
\* sheet "Data entry".
C10_TwoSheetsEverywhere ==
    (pc = "done" /\ written # << >>) =>
        \A i \in DOMAIN written :
            /\ Len(FileWritten(i).sheets) >= 2
            /\ FileWritten(i).sheets[1].title = "Complete data"
            /\ FileWritten(i).sheets[2].title = "Data entry"

\* C10: when a run that wrote files is done, every per-category file it wrote
\* has the sheet "Complete data" followed by the sheet "Data entry", with the
\* data entry columns; the all-items file has the one sheet write_excel made,
\* holding copyright_data.
C10_TwoSheetsPerCategory ==
    (pc = "done" /\ written # << >>) =>
        \A i \in DOMAIN written :
            IF written[i][1] = "faculties"
            THEN /\ Titles(FileWritten(i)) = << "Complete data", "Data entry" >>
                 /\ FileWritten(i).sheets[1].columns = column_order
                 /\ FileWritten(i).sheets[2].columns = col_names
            ELSE /\ Titles(FileWritten(i)) = << "Sheet1" >>
                 /\ FileWritten(i).sheets[1].columns = copyright_data.columns
                 /\ BagCardinality(FileWritten(i).sheets[1].rows) = len(copyright_data)

C10_Witness ==
    /\ pc = "done"
    /\ \E i, j \in DOMAIN written :
          written[i][1] = "faculties" /\ written[j][1] = "all_items"
    /\ \E i \in DOMAIN written :
          written[i][1] = "faculties" /\ FileWritten(i).sheets[1].rows # EmptyBag

\* The stage that returned last read the previous sheets back.
ReadBackDone ==
    /\ pc \in { "running", "done" }
    /\ step > 1
    /\ \/ settings[step - 1] = "read_faculty_sheets"
       \/ settings[step - 1] = "process_copyright_export" /\ only_changes

\* The run ended in the read of the previous sheets.
ReadBackAborted ==
    /\ pc = "aborted"
    /\ \/ settings[step] = "read_faculty_sheets"
       \/ settings[step] = "process_copyright_export" /\ reconciled = "read_raised"

\* The sheet of a workbook that holds its records.
PrimarySheet(file) ==
    IF \E i \in DOMAIN file.sheets : file.sheets[i].title = "Complete data"
    THEN file.sheets[CHOOSE i \in DOMAIN file.sheets : file.sheets[i].title = "Complete data"]
    ELSE file.sheets[1]

\* The files of the categories directory that are workbooks with records.
ValidFiles ==
    { f \in files_r(dirs.faculties) :
        /\ f.extension \in { ".xls", ".xlsx" }
        /\ f.sheets # << >>
        /\ PrimarySheet(f).rows # EmptyBag }

\* C11: the read of the previous sheets never ends the run, and what it
\* returns is each record of the valid files once: a file that is no
\* workbook, holds no record or cannot be read adds nothing.
C11_SkipAndContinue ==
    /\ ~ ReadBackAborted
    /\ ReadBackDone =>
           /\ DOMAIN faculty_sheet_data.rows =
                  UNION { DOMAIN PrimarySheet(f).rows : f \in ValidFiles }
           /\ \A r \in DOMAIN faculty_sheet_data.rows : faculty_sheet_data.rows[r] = 1

\* The run ended in create_faculty_sheets, after it wrote a file that
\* load_workbook could not reopen: the last entry of written.
ReopenFailed ==
    /\ pc = "aborted"
    /\ settings[step] = "create_faculty_sheets"
    /\ written # << >>

\* C12: when a run ends because the file of one category could not be
\* reopened, each per-category file written before it in the run is in its
\* directory with the sheet "Complete data", holding the records of its
\* category, followed by the sheet "Data entry"; and no step removes or
\* changes a file of the categories directory.
C12_EarlierFilesKept ==
    /\ [](ReopenFailed =>
             \A i \in 1..(Len(written) - 1) :
                 /\ written[i][2] \in DOMAIN dirs.faculties
                 /\ Titles(dirs.faculties[written[i][2]]) = << "Complete data", "Data entry" >>
                 /\ dirs.faculties[written[i][2]].sheets[1].columns = copyright_data.columns
                 /\ \A r \in DOMAIN dirs.faculties[written[i][2]].sheets[1].rows :
                        r["faculty"] = written[i][2][1])
    /\ [][\A p \in DOMAIN dirs.faculties :
              p \in DOMAIN dirs'.faculties /\ dirs'.faculties[p] = dirs.faculties[p]]_vars

C12_Witness ==
    /\ ReopenFailed
    /\ Len(written) = 2
    /\ dirs.faculties[written[1][2]].sheets[1].rows # EmptyBag
    /\ Len(dirs.faculties[written[2][2]].sheets) = 1

\* C13: when a run has ended, every per-category file it wrote has the data
\* entry sheet: none is left with the primary sheet alone.
C13_NoFileWithoutEntrySheet ==
    pc \in { "done", "aborted" } =>
        \A i \in DOMAIN written :
            written[i][1] = "faculties" =>
                \E k \in DOMAIN dirs.faculties[written[i][2]].sheets :
                    dirs.faculties[written[i][2]].sheets[k].title = "Data entry"

\* The stages that assign self.faculties and self.copyright_data.
Reconciling == { "process_copyright_export" }

\* The stages that write sheets from them.
Writing == { "create_faculty_sheets", "create_all_items_sheet" }

\* C17: in the stage list of every run a reconciling stage comes before each
\* sheet-writing stage, and no run ends in create_faculty_sheets because
\* self.faculties was never assigned.
C17_StagesInOrder ==
    /\ \A i \in DOMAIN settings :
           settings[i] \in Writing =>
               \E j \in 1..(i - 1) : settings[j] \in Reconciling
    /\ ~ (/\ pc = "aborted"
          /\ settings[step] = "create_faculty_sheets"
          /\ faculties = NoFaculties)

\* copyright_data is the normalized set: process_copyright_export returned
\* and did not compare it with previous sheets.
JustNormalized == Processed_once /\ reconciled \in { "no", "bootstrap" }

\* The normalized record of the raw record x, field by field.
NormalRecord(x) ==
    [ c \in Cells(column_order) |->
        CASE c = "material_id" -> x["Material id"]
          [] c = "department" -> x["Department"]
          [] c = "status" -> x["Status"]
          [] c = "last_change" -> strftime(x["Last change"])
          [] c = "workflow_status" -> "ToDo"
          [] c = "retrieved_from_copyright_on" -> strftime(CreatedOn(NewestExport))
          [] c = "faculty" -> IF x["Department"] \in DOMAIN DEPARTMENT_MAPPING
                              THEN DEPARTMENT_MAPPING[x["Department"]]
                              ELSE "Unmapped" ]

\* C14: the normalized set has one record for each raw record, as often as
\* the export holds it, with workflow_status "ToDo", the date of the export
\* and the faculty the mapping gives (Unmapped where it gives none);
\* normalizing never raises, and process_copyright_export leaves the raw set
\* as read from the export.
C14_Normalization ==
    /\ [](JustNormalized =>
             /\ len(copyright_data) = len(raw_copyright_data)
             /\ DOMAIN copyright_data.rows =
                    { NormalRecord(x) : x \in DOMAIN raw_copyright_data.rows }
             /\ \A x \in DOMAIN raw_copyright_data.rows :
                    copyright_data.rows[NormalRecord(x)] = raw_copyright_data.rows[x]
             /\ raw_copyright_data = dirs.copyright_export.data)
    /\ [](~ (/\ pc = "aborted"
             /\ settings[step] = "process_copyright_export"
             /\ reconciled = "no"))
    /\ [][AtStage("process_copyright_export") =>
              raw_copyright_data' = raw_copyright_data]_vars

C14_Witness ==
    /\ JustNormalized
    /\ len(raw_copyright_data) = MaxRows
    /\ \E r \in DOMAIN copyright_data.rows : r["faculty"] = "Unmapped"
    /\ \E r \in DOMAIN copyright_data.rows : r["faculty"] = "EEMCS"

\* C15: once process_copyright_export has compared the export with the
\* previous sheets, copyright_data holds each record at most as often as the
\* normalized set does.
C15_NoDuplicatesAdded ==
    (Joined \/ Processed_once) =>
        \A R \in DOMAIN select(copyright_data, column_order).rows :
            CopiesIn(R, select(copyright_data, column_order).rows)
                <= CopiesIn(R, NormalizedSet.rows)

\* The per-category files this run wrote.
CategoryFiles == { i \in DOMAIN written : written[i][1] = "faculties" }

\* The rows of the consolidated file this run wrote.
AllItemsRows ==
    LET i == CHOOSE k \in DOMAIN written : written[k][1] = "all_items"
    IN dirs.all_items[written[i][2]].sheets[1].rows

\* C16: when a run that wrote files is done, each record of the consolidated
\* file is, as often, in exactly one per-category file the run wrote, the one
\* of its category (the file named no_faculty_found for a blank category),
\* and the per-category files hold no other record.
C16_Partition ==
    (pc = "done" /\ written # << >>) =>
        /\ \A r \in DOMAIN AllItemsRows :
               /\ Cardinality({ i \in CategoryFiles :
                       r \in DOMAIN FileWritten(i).sheets[1].rows }) = 1
               /\ \A i \in CategoryFiles :
                      r \in DOMAIN FileWritten(i).sheets[1].rows =>
                          /\ FileWritten(i).sheets[1].rows[r] = AllItemsRows[r]
                          /\ written[i][2][2] \in
                                 NamesFor(IF r["faculty"] = Null THEN "no_faculty_found"
                                          ELSE r["faculty"], latest_file_date)
        /\ \A i \in CategoryFiles :
               DOMAIN FileWritten(i).sheets[1].rows \subseteq DOMAIN AllItemsRows

====
